---- MODULE Spec2Model ----
(***************************************************************************)
(* Citas de Unidades (app.py): booking of time-slot appointments against a *)
(* shared Google Sheet.  The sheet is the only shared state; every browser *)
(* session runs the script top to bottom and touches the sheet through     *)
(* read_all, append_cita and update_estado_por_row, none of which is       *)
(* transactional.  One action of the model is one store round trip of one  *)
(* session together with the local computation that follows it.            *)
(*                                                                         *)
(* Text values that the code normalises (dates, slot names, the three      *)
(* mandatory text inputs) are sequences of one-character strings so that   *)
(* strip / lstrip / upper are computed.  The free-text columns without any *)
(* rule (placa_carreta, licencia, transporte, tipo_operacion, hora_cita,   *)
(* observacion, telefono_registro) are copied verbatim by the code and are *)
(* left out of the rows.                                                   *)
(***************************************************************************)
EXTENDS Integers, Sequences, FiniteSets, TLC

VARIABLES
    hoja,              \* data rows of worksheet "citas" (row 2 onwards), in sheet order
    reloj,             \* datetime.now(), in ticks of its resolution
    pc,                \* per chofer session: position in the TAB 1 script
    widgets,           \* per chofer session: the widget values of the form
    disponibles,       \* per chofer session: the list of line 502
    libres_live,       \* per chofer session: the preview figure of line 529
    libres_now,        \* per chofer session: the figure of the re-check, line 541
    data,              \* per chofer session: the record assembled at lines 546-563
    resultado,         \* per chofer session: what the last run showed (st.error / st.success)
    last_ticket_data,  \* per chofer session: st.session_state["last_ticket_data"]
    adm_pc,            \* per admin session: position in the TAB 2 script
    df_admin,          \* per admin session: the table given to the editor
    edited,            \* per admin session: the table returned by the editor
    cambios,           \* per admin session: the changed rows being written
    adm_resultado,     \* per admin session: what the last save showed
    borrados,          \* rows deleted by hand in the spreadsheet so far
    transitorios       \* read calls the store will still answer with a transient error

vars == <<hoja, reloj, pc, widgets, disponibles, libres_live, libres_now, data,
          resultado, last_ticket_data, adm_pc, df_admin, edited, cambios,
          adm_resultado, borrados, transitorios>>

chofer_vars ==
    <<pc, widgets, disponibles, libres_live, libres_now, data, resultado, last_ticket_data>>
admin_vars == <<adm_pc, df_admin, edited, cambios, adm_resultado>>

----------------------------------------------------------------------------
(* Bounds *)

MaxFilas == 5          \* rows the sheet may hold
MaxCambios == 1        \* cells an admin edits before one save
DigestSpace == 65536   \* values of the truncated digest kept by the model

Sesiones == {"s1", "s2", "s3", "s4", "s5"}
Admins == {"a1"}

----------------------------------------------------------------------------
(* Configuration *)

ESTADOS == <<"EN COLA", "EN PROCESO", "ATENDIDO", "CANCELADO">>

TURNOS_BASE ==
    << [turno |-> <<"T", "1">>, horario |-> "08:00 - 10:00", capacidad |-> 4],
       [turno |-> <<"T", "2">>, horario |-> "10:00 - 12:00", capacidad |-> 4],
       [turno |-> <<"T", "3">>, horario |-> "13:00 - 15:00", capacidad |-> 4],
       [turno |-> <<"T", "4">>, horario |-> "15:00 - 16:30", capacidad |-> 4] >>

COLUMNAS ==
    {"id_ticket", "turno", "horario_turno", "placa_tracto", "chofer_nombre",
     "fecha_cita", "estado", "creado_en", "registrado_por"}

----------------------------------------------------------------------------
(* Text helpers *)

RECURSIVE lstrip(_, _)
lstrip(s, ch) == IF s # <<>> /\ Head(s) = ch THEN lstrip(Tail(s), ch) ELSE s

RECURSIVE rstrip(_, _)
rstrip(s, ch) ==
    IF s # <<>> /\ s[Len(s)] = ch THEN rstrip(SubSeq(s, 1, Len(s) - 1), ch) ELSE s

strip(s) == rstrip(lstrip(s, " "), " ")

upper(s) == [i \in DOMAIN s |-> IF s[i] = "a" THEN "A" ELSE s[i]]

norm_str(x) == strip(x)

norm_date_text(x) == strip(lstrip(norm_str(x), "'"))

Max(a, b) == IF a >= b THEN a ELSE b

----------------------------------------------------------------------------
(* Dates of the current week: a date is its offset from Monday *)

weekday(d) == d % 7

semana_lun_sab == 0..5

Digito == <<"0", "1", "2", "3", "4", "5", "6">>

fmt_fecha(d) == <<"d", Digito[d + 1]>>

----------------------------------------------------------------------------
(* Store reads and pure computations *)

read_all(ws) ==
    [i \in DOMAIN ws |->
        [ws[i] EXCEPT !.fecha_cita = norm_date_text(@), !.turno = norm_str(@)]]

generar_ticket(now) == <<"TKT", (now * 40503 + 17) % DigestSpace>>

\* Variant: the four slots on every day.
turnos_para_fecha_sin_sabado(fecha_dt) == TURNOS_BASE

turnos_para_fecha(fecha_dt) ==
    IF weekday(fecha_dt) = 5 THEN SubSeq(TURNOS_BASE, 1, 2) ELSE TURNOS_BASE

\* Variant: cancelled bookings are counted as well (line 286 left out).
cupos_disponibles_con_cancelados(df, fecha, turno, capacidad) ==
    IF df = <<>> THEN capacidad
    ELSE LET f == norm_date_text(fecha)
             t == norm_str(turno)
             sub == {i \in DOMAIN df :
                        /\ norm_date_text(df[i].fecha_cita) = f
                        /\ norm_str(df[i].turno) = t}
             usados == Cardinality(sub)
         IN  Max(0, capacidad - usados)

\* Variant: the difference is returned as it is, without the max of line 288.
cupos_disponibles_sin_tope(df, fecha, turno, capacidad) ==
    IF df = <<>> THEN capacidad
    ELSE LET f == norm_date_text(fecha)
             t == norm_str(turno)
             sub == {i \in DOMAIN df :
                        /\ norm_date_text(df[i].fecha_cita) = f
                        /\ norm_str(df[i].turno) = t
                        /\ df[i].estado # "CANCELADO"}
             usados == Cardinality(sub)
         IN  capacidad - usados

cupos_disponibles(df, fecha, turno, capacidad) ==
    IF df = <<>> THEN capacidad
    ELSE LET f == norm_date_text(fecha)
             t == norm_str(turno)
             sub == {i \in DOMAIN df :
                        /\ norm_date_text(df[i].fecha_cita) = f
                        /\ norm_str(df[i].turno) = t
                        /\ df[i].estado # "CANCELADO"}
             usados == Cardinality(sub)
         IN  Max(0, capacidad - usados)

\* Variant: the slots are kept when the figure is not negative.
turnos_disponibles_con_agotados(df, fecha_dt, fecha_str) ==
    LET ts == turnos_para_fecha(fecha_dt)
        todas == [i \in DOMAIN ts |->
                    [turno |-> ts[i].turno, horario |-> ts[i].horario,
                     libres |-> cupos_disponibles(df, fecha_str, ts[i].turno, ts[i].capacidad),
                     capacidad |-> ts[i].capacidad]]
    IN  SelectSeq(todas, LAMBDA o : o.libres >= 0)

turnos_disponibles(df, fecha_dt, fecha_str) ==
    LET ts == turnos_para_fecha(fecha_dt)
        todas == [i \in DOMAIN ts |->
                    [turno |-> ts[i].turno, horario |-> ts[i].horario,
                     libres |-> cupos_disponibles(df, fecha_str, ts[i].turno, ts[i].capacidad),
                     capacidad |-> ts[i].capacidad]]
    IN  SelectSeq(todas, LAMBDA o : o.libres > 0)

----------------------------------------------------------------------------
(* Store writes *)

\* Variant: the new row is inserted under the header (insert_row at index 2)
\* instead of after the last row.
append_cita_bajo_cabecera(ws, row_dict) ==
    LET headers == COLUMNAS
        d2 == [row_dict EXCEPT !.fecha_cita = IF @ # <<>> THEN lstrip(@, "'") ELSE @]
        row == [h \in headers |-> IF h \in DOMAIN d2 THEN d2[h] ELSE <<>>]
    IN  <<row>> \o ws

append_cita(ws, row_dict) ==
    LET headers == COLUMNAS
        d2 == [row_dict EXCEPT !.fecha_cita = IF @ # <<>> THEN lstrip(@, "'") ELSE @]
        row == [h \in headers |-> IF h \in DOMAIN d2 THEN d2[h] ELSE <<>>]
    IN  Append(ws, row)

FilaVacia == [h \in COLUMNAS |-> IF h \in {"estado", "horario_turno"} THEN "" ELSE <<>>]

\* Variant: the header row is not discounted from the row number.
update_estado_sin_cabecera(ws, row_number, nuevo_estado) ==
    LET i == row_number
    IN  IF i \in DOMAIN ws
        THEN [ws EXCEPT ![i].estado = nuevo_estado]
        ELSE [k \in 1..i |->
                IF k \in DOMAIN ws THEN ws[k]
                ELSE IF k = i THEN [FilaVacia EXCEPT !.estado = nuevo_estado]
                ELSE FilaVacia]

\* update_cell addresses the sheet by row number (row 1 is the header).  A row
\* number below the last data row makes the sheet grow by empty rows.
update_estado_por_row(ws, row_number, nuevo_estado) ==
    LET i == row_number - 1
    IN  IF i \in DOMAIN ws
        THEN [ws EXCEPT ![i].estado = nuevo_estado]
        ELSE [k \in 1..i |->
                IF k \in DOMAIN ws THEN ws[k]
                ELSE IF k = i THEN [FilaVacia EXCEPT !.estado = nuevo_estado]
                ELSE FilaVacia]

----------------------------------------------------------------------------
(* Table joins of the admin panel *)

RECURSIVE concat(_)
concat(ss) == IF ss = <<>> THEN <<>> ELSE Head(ss) \o concat(Tail(ss))

\* df_admin.merge(df_full[["id_ticket", "__row"]], on="id_ticket", how="left")
\* with df_full["__row"] = df_full.index + 2; a missing key gives NaN (<<>>).
merge_row(df_adm, df_full) ==
    concat([i \in DOMAIN df_adm |->
        LET ms == SelectSeq([j \in DOMAIN df_full |->
                                [id_ticket |-> df_full[j].id_ticket, row |-> (j - 1) + 2]],
                            LAMBDA m : m.id_ticket = df_adm[i].id_ticket)
        IN  IF ms = <<>> THEN << df_adm[i] @@ ("__row" :> <<>>) >>
            ELSE [j \in DOMAIN ms |-> df_adm[i] @@ ("__row" :> <<ms[j].row>>)]])

\* edited.merge(df_admin[["id_ticket", "estado"]], on="id_ticket",
\*              suffixes=("_new", "_old"))
merge_estado(edit, df_adm) ==
    concat([i \in DOMAIN edit |->
        LET ms == SelectSeq(df_adm, LAMBDA d : d.id_ticket = edit[i].id_ticket)
        IN  [j \in DOMAIN ms |->
                [id_ticket |-> edit[i].id_ticket, row |-> edit[i]["__row"],
                 estado_new |-> edit[i].estado, estado_old |-> ms[j].estado]]])

----------------------------------------------------------------------------
(* Initial state *)

SinWidgets ==
    [fecha_sel |-> 0, turno_sel |-> <<>>, horario_sel |-> "", cap_sel |-> 0,
     placa_tracto |-> <<>>, chofer |-> <<>>, registrado_por |-> <<>>]

FilaInicial(n, fecha, estado) ==
    [id_ticket |-> generar_ticket(n), turno |-> TURNOS_BASE[1].turno,
     horario_turno |-> TURNOS_BASE[1].horario, placa_tracto |-> <<"A">>,
     chofer_nombre |-> <<"a">>, fecha_cita |-> fecha, estado |-> estado,
     creado_en |-> <<n>>, registrado_por |-> <<"a">>]

\* The sheet the sessions of the model find: four bookings of Friday's first
\* slot made earlier, one of them cancelled since and one stored with the
\* leading apostrophe that read_all strips.
HojaInicial ==
    << FilaInicial(0, fmt_fecha(4), "EN COLA"),
       FilaInicial(1, <<"'">> \o fmt_fecha(4), "EN COLA"),
       FilaInicial(2, fmt_fecha(4), "CANCELADO"),
       FilaInicial(3, fmt_fecha(4), "EN COLA") >>

\* t: the read calls the store will answer with a transient error; w: the
\* values the widgets hold.
InitWidgets(h, t, w) ==
    /\ hoja = h
    /\ reloj = Len(hoja)
    /\ pc = [s \in Sesiones |-> "inicio"]
    /\ widgets = w
    /\ disponibles = [s \in Sesiones |-> <<>>]
    /\ libres_live = [s \in Sesiones |-> 0]
    /\ libres_now = [s \in Sesiones |-> 0]
    /\ data = [s \in Sesiones |-> <<>>]
    /\ resultado = [s \in Sesiones |-> ""]
    /\ last_ticket_data = [s \in Sesiones |-> <<>>]
    /\ adm_pc = [a \in Admins |-> "inicio"]
    /\ df_admin = [a \in Admins |-> <<>>]
    /\ edited = [a \in Admins |-> <<>>]
    /\ cambios = [a \in Admins |-> <<>>]
    /\ adm_resultado = [a \in Admins |-> ""]
    /\ borrados = 0
    /\ transitorios = t

InitEntorno(h, t) == InitWidgets(h, t, [s \in Sesiones |-> SinWidgets])

InitCon(h) == InitEntorno(h, 0)

Init == InitCon(HojaInicial)

----------------------------------------------------------------------------
(* TAB 1: Registro.  One run of the script for session s. *)

EnCurso == {r \in Sesiones : pc[r] # "inicio"}

\* The run ends: its locals are gone and session_state stays.  The next run
\* overwrites every widget value before reading it, so the form is cleared.
FinRegistro(s, res) ==
    /\ pc' = [pc EXCEPT ![s] = "inicio"]
    /\ widgets' = [widgets EXCEPT ![s] = SinWidgets]
    /\ disponibles' = [disponibles EXCEPT ![s] = <<>>]
    /\ resultado' = [resultado EXCEPT ![s] = res]
    /\ libres_live' = [libres_live EXCEPT ![s] = 0]
    /\ libres_now' = [libres_now EXCEPT ![s] = 0]
    /\ data' = [data EXCEPT ![s] = <<>>]

\* Lines 492-510: read the sheet, choose a date of the week, choose one of the
\* slots that still show free places.
Registro_Leer(s, fechas, turnos, max_filas) ==
    /\ pc[s] = "inicio"
    /\ Len(hoja) + Cardinality(EnCurso) < max_filas
    /\ \E fecha_sel \in fechas :
         LET df == read_all(hoja)
             lista == turnos_disponibles(df, fecha_sel, fmt_fecha(fecha_sel))
         IN  IF lista = <<>>
             THEN FinRegistro(s, "SinCupos")
             ELSE \E idx \in DOMAIN lista :
                    /\ lista[idx].turno \in turnos
                    /\ widgets' = [widgets EXCEPT
                                     ![s].fecha_sel = fecha_sel,
                                     ![s].turno_sel = lista[idx].turno,
                                     ![s].horario_sel = lista[idx].horario,
                                     ![s].cap_sel = lista[idx].capacidad]
                    /\ disponibles' = [disponibles EXCEPT ![s] = lista]
                    /\ pc' = [pc EXCEPT ![s] = "live"]
                    /\ resultado' = [resultado EXCEPT ![s] = ""]
                    /\ UNCHANGED <<libres_live, libres_now, data>>
    /\ UNCHANGED <<hoja, reloj, last_ticket_data, admin_vars, borrados, transitorios>>

\* Lines 533-538: the two tests of the button handler.
Validos(placa_tracto, chofer, registrado_por) ==
    IF placa_tracto = <<>> \/ chofer = <<>> THEN FALSE
    ELSE IF strip(registrado_por) = <<>> THEN FALSE
    ELSE TRUE

\* Lines 512-538 of the run started by the button: the texts of the form, the
\* read for the figure shown next to it, then the validation.  The slot list of
\* the run that drew the form ends with that run.
Registro_Boton(s, formularios) ==
    /\ pc[s] = "live"
    /\ \E f \in formularios :
         LET df_now_for_cupos == read_all(hoja)
             libres == cupos_disponibles(df_now_for_cupos, fmt_fecha(widgets[s].fecha_sel),
                                         widgets[s].turno_sel, widgets[s].cap_sel)
         IN  IF Validos(f.placa_tracto, f.chofer, f.registrado_por)
             THEN /\ widgets' = [widgets EXCEPT ![s].placa_tracto = f.placa_tracto,
                                                ![s].chofer = f.chofer,
                                                ![s].registrado_por = f.registrado_por]
                  /\ libres_live' = [libres_live EXCEPT ![s] = libres]
                  /\ disponibles' = [disponibles EXCEPT ![s] = <<>>]
                  /\ pc' = [pc EXCEPT ![s] = "recheck"]
                  /\ UNCHANGED <<libres_now, data, resultado>>
             ELSE FinRegistro(s, "ValidationError")
    /\ UNCHANGED <<hoja, reloj, last_ticket_data, admin_vars, borrados, transitorios>>

\* Lines 546-563.
Registro_Data(s, now) ==
    [id_ticket |-> generar_ticket(now),
     turno |-> widgets[s].turno_sel,
     horario_turno |-> widgets[s].horario_sel,
     placa_tracto |-> upper(strip(widgets[s].placa_tracto)),
     chofer_nombre |-> strip(widgets[s].chofer),
     fecha_cita |-> fmt_fecha(widgets[s].fecha_sel),
     estado |-> "EN COLA",
     creado_en |-> <<now>>,
     registrado_por |-> strip(widgets[s].registrado_por)]

\* Variant: the test of line 542 written with < instead of <=.
Agotado_estricto(libres) == libres < 0

\* Line 542.
Agotado(libres) == libres <= 0

\* Variant: the decision is taken on the figure of the preview (line 529).
Registro_Recheck_con_preview(s) ==
    /\ pc[s] = "recheck"
    /\ LET libres == libres_live[s]
       IN  IF Agotado(libres)
           THEN /\ FinRegistro(s, "SlotFull")
           ELSE /\ libres_now' = [libres_now EXCEPT ![s] = libres]
                /\ data' = [data EXCEPT ![s] = <<Registro_Data(s, reloj)>>]
                /\ pc' = [pc EXCEPT ![s] = "append"]
                /\ UNCHANGED <<disponibles, libres_live, resultado, widgets>>
    /\ UNCHANGED <<hoja, reloj, last_ticket_data, admin_vars, borrados, transitorios>>

\* Lines 539-563: the re-check on a read of its own, then the record.

Registro_Recheck(s) ==
    /\ pc[s] = "recheck"
    /\ LET df_now == read_all(hoja)
           libres == cupos_disponibles(df_now, fmt_fecha(widgets[s].fecha_sel),
                                       widgets[s].turno_sel, widgets[s].cap_sel)
       IN  IF Agotado(libres)
           THEN /\ FinRegistro(s, "SlotFull")
           ELSE /\ libres_now' = [libres_now EXCEPT ![s] = libres]
                /\ data' = [data EXCEPT ![s] = <<Registro_Data(s, reloj)>>]
                /\ pc' = [pc EXCEPT ![s] = "append"]
                /\ UNCHANGED <<disponibles, libres_live, resultado, widgets>>
    /\ UNCHANGED <<hoja, reloj, last_ticket_data, admin_vars, borrados, transitorios>>

\* Lines 565-571: one append_row call, then the session keeps the ticket.  The
\* round trip takes longer than the resolution of the clock.
Registro_Append(s) ==
    /\ pc[s] = "append"
    /\ hoja' = append_cita(hoja, data[s][1])
    /\ reloj' = reloj + 1
    /\ last_ticket_data' = [last_ticket_data EXCEPT ![s] = data[s]]
    /\ FinRegistro(s, "ok")
    /\ UNCHANGED <<admin_vars, borrados, transitorios>>

\* Variant: the session keeps the ticket before the append is made.
Registro_Falla_recordando(s) ==
    /\ pc[s] \in {"live", "recheck", "append"}
    /\ last_ticket_data' = IF pc[s] = "append"
                           THEN [last_ticket_data EXCEPT ![s] = data[s]]
                           ELSE last_ticket_data
    /\ FinRegistro(s, "StoreError")
    /\ UNCHANGED <<hoja, reloj, admin_vars, borrados, transitorios>>

\* Variant: the failing append has already written its row.
Registro_Falla_tras_escribir(s) ==
    /\ pc[s] \in {"live", "recheck", "append"}
    /\ hoja' = IF pc[s] = "append" THEN append_cita(hoja, data[s][1]) ELSE hoja
    /\ FinRegistro(s, "StoreError")
    /\ UNCHANGED <<reloj, last_ticket_data, admin_vars, borrados, transitorios>>

\* Any store call of the run raises (gspread APIError): the run stops there
\* and nothing was written.
Registro_Falla(s) ==
    /\ pc[s] \in {"live", "recheck", "append"}
    /\ FinRegistro(s, "StoreError")
    /\ UNCHANGED <<hoja, reloj, last_ticket_data, admin_vars, borrados, transitorios>>

----------------------------------------------------------------------------
(* TAB 2: Panel admin.  One run of the script for admin session a; the     *)
(* three filters stay at their defaults.                                   *)

FinAdmin(a, res) ==
    /\ adm_pc' = [adm_pc EXCEPT ![a] = "inicio"]
    /\ adm_resultado' = [adm_resultado EXCEPT ![a] = res]
    /\ df_admin' = [df_admin EXCEPT ![a] = <<>>]
    /\ edited' = [edited EXCEPT ![a] = <<>>]
    /\ cambios' = [cambios EXCEPT ![a] = <<>>]

\* Lines 605-624.
Admin_Leer(a) ==
    /\ adm_pc[a] = "inicio"
    /\ df_admin' = [df_admin EXCEPT ![a] = read_all(hoja)]
    /\ adm_pc' = [adm_pc EXCEPT ![a] = "resolver"]
    /\ adm_resultado' = [adm_resultado EXCEPT ![a] = ""]
    /\ UNCHANGED <<hoja, reloj, chofer_vars, edited, cambios, borrados, transitorios>>

\* data_editor: only the estado column can be edited, to one of ESTADOS.
\* ediciones maps the edited row positions of the table to their new estado.
data_editor(tabla, ediciones) ==
    [k \in DOMAIN tabla |->
        IF k \in DOMAIN ediciones THEN [tabla[k] EXCEPT !.estado = ediciones[k]]
        ELSE tabla[k]]

\* Variant: a cancelled booking cannot be reopened.
CambiosDe_sin_reabrir(ed, tabla) ==
    SelectSeq(merge_estado(ed, tabla),
              LAMBDA r : r.estado_new # r.estado_old /\ r.estado_old # "CANCELADO")

\* Lines 647-648.
CambiosDe(ed, tabla) ==
    SelectSeq(merge_estado(ed, tabla), LAMBDA r : r.estado_new # r.estado_old)

\* Lines 628-651 of the run started by the save button: a second read gives
\* the row numbers, the editor returns the joined table with the admin's
\* edits, and the changed rows are collected.
Admin_Guardar(a, estados, max_cambios) ==
    /\ adm_pc[a] = "resolver"
    /\ LET df_full == read_all(hoja)
           tabla == merge_row(df_admin[a], df_full)
       IN  \E K \in SUBSET DOMAIN tabla :
             /\ Cardinality(K) <= max_cambios
             /\ \E ediciones \in [K -> estados] :
                  LET ed == data_editor(tabla, ediciones)
                      c == CambiosDe(ed, tabla)
                  IN  IF c = <<>>
                      THEN FinAdmin(a, "No hay cambios")
                      ELSE /\ df_admin' = [df_admin EXCEPT ![a] = tabla]
                           /\ edited' = [edited EXCEPT ![a] = ed]
                           /\ cambios' = [cambios EXCEPT ![a] = c]
                           /\ adm_pc' = [adm_pc EXCEPT ![a] = "escribir"]
                           /\ UNCHANGED adm_resultado
    /\ UNCHANGED <<hoja, reloj, chofer_vars, borrados, transitorios>>

\* Variant: the save writes the whole row of the edited table back instead of
\* the estado cell alone.
Admin_Escribir_fila_entera(a) ==
    /\ adm_pc[a] = "escribir"
    /\ LET r == Head(cambios[a])
       IN  IF r.row = <<>>
           THEN /\ FinAdmin(a, "Error")
                /\ UNCHANGED hoja
           ELSE /\ LET i == r.row[1] - 1
                       e == CHOOSE x \in {edited[a][k] : k \in DOMAIN edited[a]} :
                                x.id_ticket = r.id_ticket /\ x["__row"] = r.row
                   IN  hoja' = IF i \in DOMAIN hoja
                               THEN [hoja EXCEPT ![i] =
                                       [h \in COLUMNAS |-> IF h = "estado" THEN r.estado_new
                                                           ELSE e[h]]]
                               ELSE update_estado_por_row(hoja, r.row[1], r.estado_new)
                /\ IF Tail(cambios[a]) = <<>>
                   THEN FinAdmin(a, "Estados actualizados")
                   ELSE /\ cambios' = [cambios EXCEPT ![a] = Tail(@)]
                        /\ UNCHANGED <<adm_pc, df_admin, edited, adm_resultado>>
    /\ UNCHANGED <<reloj, chofer_vars, borrados, transitorios>>

\* Lines 653-656: one iteration of the loop, one update_cell call.  int() of
\* a NaN row number raises before the store is called; the except clause of
\* line 657 ends the save.
Admin_Escribir(a) ==
    /\ adm_pc[a] = "escribir"
    /\ LET r == Head(cambios[a])
       IN  IF r.row = <<>>
           THEN /\ FinAdmin(a, "Error")
                /\ UNCHANGED hoja
           ELSE /\ hoja' = update_estado_por_row(hoja, r.row[1], r.estado_new)
                /\ IF Tail(cambios[a]) = <<>>
                   THEN FinAdmin(a, "Estados actualizados")
                   ELSE /\ cambios' = [cambios EXCEPT ![a] = Tail(@)]
                        /\ UNCHANGED <<adm_pc, df_admin, edited, adm_resultado>>
    /\ UNCHANGED <<reloj, chofer_vars, borrados, transitorios>>

\* A store call of the run raises: the script stops (reads) or the except
\* clause of line 657 reports it (writes); that call wrote nothing.
Admin_Falla(a) ==
    /\ adm_pc[a] \in {"resolver", "escribir"}
    /\ FinAdmin(a, "Error")
    /\ UNCHANGED <<hoja, reloj, chofer_vars, borrados, transitorios>>

\* get_all_records of a read of the run (lines 527, 540) raises a transient
\* error of the service.  read_all calls it once: the exception leaves the
\* run as any other.
Registro_Transitorio(s) ==
    /\ transitorios > 0
    /\ pc[s] \in {"live", "recheck"}
    /\ transitorios' = transitorios - 1
    /\ FinRegistro(s, "StoreError")
    /\ UNCHANGED <<hoja, reloj, last_ticket_data, admin_vars, borrados>>

\* The same for the read of line 628 that gives the row numbers.
Admin_Transitorio(a) ==
    /\ transitorios > 0
    /\ adm_pc[a] = "resolver"
    /\ transitorios' = transitorios - 1
    /\ FinAdmin(a, "Error")
    /\ UNCHANGED <<hoja, reloj, chofer_vars, borrados>>

\* Somebody with access to the spreadsheet deletes a data row by hand.
Externo_Borrar(max_borrados) ==
    /\ borrados < max_borrados
    /\ \E i \in DOMAIN hoja :
         hoja' = [k \in 1..(Len(hoja) - 1) |-> IF k < i THEN hoja[k] ELSE hoja[k + 1]]
    /\ borrados' = borrados + 1
    /\ UNCHANGED <<reloj, chofer_vars, admin_vars, transitorios>>

----------------------------------------------------------------------------
(* Specifications *)

\* Spec: two chofer sessions and one admin session on Friday's first slot.
Choferes == {"s1", "s2"}

Fechas == {4}

Turnos == {TURNOS_BASE[1].turno}

Estados == {"EN COLA", "CANCELADO"}

Formulario(p, c, r) == [placa_tracto |-> p, chofer |-> c, registrado_por |-> r]

Formularios ==
    { Formulario(<<"a", " ">>, <<"a">>, <<" ", "a">>),
      Formulario(<<"a">>, <<"a">>, <<" ">>) }

Next ==
    \/ \E s \in Choferes : Registro_Leer(s, Fechas, Turnos, MaxFilas)
    \/ \E s \in Choferes : Registro_Boton(s, Formularios)
    \/ \E s \in Choferes : Registro_Recheck(s)
    \/ \E s \in Choferes : Registro_Append(s)
    \/ \E s \in Choferes : Registro_Falla(s)
    \/ \E a \in Admins : Admin_Leer(a)
    \/ \E a \in Admins : Admin_Guardar(a, Estados, MaxCambios)
    \/ \E a \in Admins : Admin_Escribir(a)
    \/ \E a \in Admins : Admin_Falla(a)

Spec == Init /\ [][Next]_vars

\* SpecFormulario: the chofer sessions alone, over every date of the week,
\* every slot and the blank and non-blank variants of the three texts.
MaxFilasFormulario == 5

TurnosTodos == {TURNOS_BASE[i].turno : i \in DOMAIN TURNOS_BASE}

TextosFormulario == {<<>>, <<" ">>, <<" ", "a">>}

FormulariosTodos ==
    {Formulario(p, c, r) : p \in TextosFormulario, c \in TextosFormulario,
                           r \in TextosFormulario}

NextFormulario ==
    \/ \E s \in Choferes : Registro_Leer(s, semana_lun_sab, TurnosTodos, MaxFilasFormulario)
    \/ \E s \in Choferes : Registro_Boton(s, FormulariosTodos)
    \/ \E s \in Choferes : Registro_Recheck(s)
    \/ \E s \in Choferes : Registro_Append(s)
    \/ \E s \in Choferes : Registro_Falla(s)

SpecFormulario == Init /\ [][NextFormulario]_vars

\* SpecCarrera: the sheet is empty and every session makes one request, with
\* valid texts, for Friday's first slot; no store call fails.
MaxFilasCarrera == 5

FormularioValido == Formulario(<<"a", " ">>, <<"a">>, <<" ", "a">>)

InitCarrera == InitCon(<<>>)

NextCarrera ==
    \/ \E s \in Sesiones : /\ resultado[s] = ""
                            /\ Registro_Leer(s, Fechas, Turnos, MaxFilasCarrera)
    \/ \E s \in Sesiones : Registro_Boton(s, {FormularioValido})
    \/ \E s \in Sesiones : Registro_Recheck(s)
    \/ \E s \in Sesiones : Registro_Append(s)

SpecCarrera == InitCarrera /\ [][NextCarrera]_vars

\* SpecExterno: the admin session saves while rows are deleted by hand in the
\* spreadsheet.
MaxCambiosExterno == 2

MaxBorrados == 1

NextExterno ==
    \/ \E a \in Admins : Admin_Leer(a)
    \/ \E a \in Admins : Admin_Guardar(a, Estados, MaxCambiosExterno)
    \/ \E a \in Admins : Admin_Escribir(a)
    \/ \E a \in Admins : Admin_Falla(a)
    \/ Externo_Borrar(MaxBorrados)

SpecExterno == Init /\ [][NextExterno]_vars

\* SpecLiberar: Friday's first slot is full; one chofer session asks for it
\* while the admin session cancels bookings; no store call fails.
MaxFilasLiberar == 6

HojaLlena ==
    [k \in 1..TURNOS_BASE[1].capacidad |-> FilaInicial(k - 1, fmt_fecha(4), "EN COLA")]

InitLiberar == InitCon(HojaLlena)

NextLiberar ==
    \/ Registro_Leer("s1", Fechas, Turnos, MaxFilasLiberar)
    \/ Registro_Boton("s1", {FormularioValido})
    \/ Registro_Recheck("s1")
    \/ Registro_Append("s1")
    \/ \E a \in Admins : Admin_Leer(a)
    \/ \E a \in Admins : Admin_Guardar(a, {"CANCELADO"}, MaxCambios)
    \/ \E a \in Admins : Admin_Escribir(a)

SpecLiberar == InitLiberar /\ [][NextLiberar]_vars

\* The admin panel alone, with the four estados of the editor column and
\* saves of several changes.
MaxCambiosLote == 2

EstadosTodos == {ESTADOS[i] : i \in DOMAIN ESTADOS}

NextEstados ==
    \/ \E a \in Admins : Admin_Leer(a)
    \/ \E a \in Admins : Admin_Guardar(a, EstadosTodos, MaxCambiosLote)
    \/ \E a \in Admins : Admin_Escribir(a)
    \/ \E a \in Admins : Admin_Falla(a)

SpecEstados == Init /\ [][NextEstados]_vars

\* The form alone, with a store whose reads succeed and whose append_row may
\* raise.
MaxFilasAppend == 6

\* Line 565: append_row raises.
Registro_Falla_Append(s) ==
    /\ pc[s] = "append"
    /\ Registro_Falla(s)

NextAppend ==
    \E s \in Choferes :
        \/ Registro_Leer(s, Fechas, TurnosTodos, MaxFilasAppend)
        \/ Registro_Boton(s, {FormularioValido})
        \/ Registro_Recheck(s)
        \/ Registro_Append(s)
        \/ Registro_Falla_Append(s)

SpecAppend == Init /\ [][NextAppend]_vars

\* A store whose only failures are a few transient errors on reads.
MaxTransitorios == 2

InitTransitorio == InitEntorno(HojaInicial, MaxTransitorios)

NextTransitorio ==
    \/ Registro_Leer("s1", Fechas, Turnos, MaxFilas)
    \/ Registro_Boton("s1", {FormularioValido})
    \/ Registro_Recheck("s1")
    \/ Registro_Append("s1")
    \/ Registro_Transitorio("s1")
    \/ \E a \in Admins : Admin_Leer(a)
    \/ \E a \in Admins : Admin_Guardar(a, Estados, MaxCambios)
    \/ \E a \in Admins : Admin_Escribir(a)
    \/ \E a \in Admins : Admin_Transitorio(a)

SpecTransitorio == InitTransitorio /\ [][NextTransitorio]_vars

\* Requests served one at a time: no session makes the re-check read of
\* line 540 while the append of another is still to be made.  The admin only
\* cancels.
MaxFilasSerie == 6

Registro_Recheck_Serie(s) ==
    /\ \A t \in Sesiones \ {s} : pc[t] # "append"
    /\ Registro_Recheck(s)

NextSerie ==
    \/ \E s \in Choferes : Registro_Leer(s, Fechas, Turnos, MaxFilasSerie)
    \/ \E s \in Choferes : Registro_Boton(s, {FormularioValido})
    \/ \E s \in Choferes : Registro_Recheck_Serie(s)
    \/ \E s \in Choferes : Registro_Append(s)
    \/ \E a \in Admins : Admin_Leer(a)
    \/ \E a \in Admins : Admin_Guardar(a, {"CANCELADO"}, MaxCambios)
    \/ \E a \in Admins : Admin_Escribir(a)

SpecSerie == Init /\ [][NextSerie]_vars

\* Two sessions that may submit at the same reading of the clock on an empty
\* sheet, and the admin panel.
MaxFilasDuplicados == 2

NextDuplicados ==
    \/ \E s \in Choferes : Registro_Leer(s, Fechas, Turnos, MaxFilasDuplicados)
    \/ \E s \in Choferes : Registro_Boton(s, {FormularioValido})
    \/ \E s \in Choferes : Registro_Recheck(s)
    \/ \E s \in Choferes : Registro_Append(s)
    \/ \E a \in Admins : Admin_Leer(a)
    \/ \E a \in Admins : Admin_Guardar(a, Estados, MaxCambios)
    \/ \E a \in Admins : Admin_Escribir(a)

SpecDuplicados == InitCarrera /\ [][NextDuplicados]_vars

\* The two availability functions on sheets of every content: rows of the
\* asked slot as the program writes them, with the date and slot texts as a
\* hand-edited sheet gives them, cancelled, of another date, of another slot.
MaxRegistros == 5

FilaCupos(fecha, turno, horario, estado) ==
    [FilaInicial(0, fecha, estado) EXCEPT !.turno = turno, !.horario_turno = horario]

FilasCupos ==
    { FilaCupos(fmt_fecha(4), TURNOS_BASE[1].turno, TURNOS_BASE[1].horario, "EN COLA"),
      FilaCupos(<<"'">> \o fmt_fecha(4), TURNOS_BASE[1].turno \o <<" ">>,
                TURNOS_BASE[1].horario, "EN COLA"),
      FilaCupos(fmt_fecha(4), TURNOS_BASE[1].turno, TURNOS_BASE[1].horario, "CANCELADO"),
      FilaCupos(fmt_fecha(5), TURNOS_BASE[1].turno, TURNOS_BASE[1].horario, "EN COLA"),
      FilaCupos(fmt_fecha(4), TURNOS_BASE[2].turno, TURNOS_BASE[2].horario, "EN COLA") }

HojasCupos(n) ==
    { [i \in 1..n |-> [f[i] EXCEPT !.id_ticket = generar_ticket(i - 1),
                                   !.creado_en = <<i - 1>>]] :
        f \in [1..n -> FilasCupos] }

\* The date and the slot chosen in the form.
ConsultasCupos ==
    { [SinWidgets EXCEPT !.fecha_sel = d,
                         !.turno_sel = TURNOS_BASE[j].turno,
                         !.horario_sel = TURNOS_BASE[j].horario,
                         !.cap_sel = TURNOS_BASE[j].capacidad] :
        d \in {4, 5}, j \in {1, 2} }

InitCupos ==
    \E n \in 0..MaxRegistros : \E h \in HojasCupos(n) : \E q \in ConsultasCupos :
        InitWidgets(h, 0, [s \in Sesiones |-> IF s = "s1" THEN q ELSE SinWidgets])

\* Lines 492-531 of a run that draws the form: the slot list of the chosen
\* date and the figure of the chosen slot, each on a read of the sheet.
Vista_Cupos(s) ==
    /\ pc[s] = "inicio"
    /\ widgets[s].turno_sel # <<>>
    /\ LET df == read_all(hoja)
           df_now_for_cupos == read_all(hoja)
           fecha_str == fmt_fecha(widgets[s].fecha_sel)
       IN  /\ disponibles' = [disponibles EXCEPT ![s] =
                                 turnos_disponibles(df, widgets[s].fecha_sel, fecha_str)]
           /\ libres_live' = [libres_live EXCEPT ![s] =
                                 cupos_disponibles(df_now_for_cupos, fecha_str,
                                                   widgets[s].turno_sel, widgets[s].cap_sel)]
    /\ pc' = [pc EXCEPT ![s] = "live"]
    /\ UNCHANGED <<hoja, reloj, widgets, libres_now, data, resultado, last_ticket_data,
                   admin_vars, borrados, transitorios>>

NextCupos == Vista_Cupos("s1")

SpecCupos == InitCupos /\ [][NextCupos]_vars

----------------------------------------------------------------------------
(* Properties *)

\* Bookings of (fecha, turno) that are not cancelled, counted on the sheet.
Ocupados(ws, fecha, turno) ==
    Cardinality({k \in DOMAIN ws :
                    /\ norm_date_text(ws[k].fecha_cita) = fecha
                    /\ norm_str(ws[k].turno) = turno
                    /\ ws[k].estado # "CANCELADO"})

\* The remaining capacity session s would compute on the sheet ws.
LibresDe(s, ws) ==
    cupos_disponibles(read_all(ws), fmt_fecha(widgets[s].fecha_sel),
                      widgets[s].turno_sel, widgets[s].cap_sel)

\* The step is the re-check of session s and its read did not fail.
PasoRecheck(s) ==
    pc[s] = "recheck" /\ pc'[s] # "recheck" /\ resultado'[s] # "StoreError"

\* C1: in every reachable state, for every date of the week and every slot of
\* the catalog, the bookings of that date and slot that are not CANCELADO are
\* at most the capacity of the slot.
C1_CupoRespetado ==
    \A d \in semana_lun_sab : \A i \in DOMAIN TURNOS_BASE :
        Ocupados(hoja, fmt_fecha(d), TURNOS_BASE[i].turno) <= TURNOS_BASE[i].capacidad

\* C2: once the five sessions that asked for the same empty slot of capacity
\* four have all finished their request at the re-check or after it, exactly
\* four of them were told the ticket was created, one was told the slot is
\* full, and the sheet holds four rows.
C2_ExactamenteN ==
    (\A s \in Sesiones : pc[s] = "inicio" /\ resultado[s] \in {"ok", "SlotFull"})
        => /\ Cardinality({s \in Sesiones : resultado[s] = "ok"}) = TURNOS_BASE[1].capacidad
           /\ Cardinality({s \in Sesiones : resultado[s] = "SlotFull"})
                 = Cardinality(Sesiones) - TURNOS_BASE[1].capacidad
           /\ Len(hoja) = TURNOS_BASE[1].capacidad

\* C3: a re-check that finds no remaining capacity on the sheet it reads ends
\* the request with the slot-full message and leaves the sheet as it was.
C3_SinCupoNoEscribe ==
    [][\A s \in Sesiones :
          (PasoRecheck(s) /\ LibresDe(s, hoja) <= 0)
              => /\ resultado'[s] = "SlotFull"
                 /\ pc'[s] = "inicio"
                 /\ hoja' = hoja]_vars

C3_Testigo == \E s \in Sesiones : resultado[s] = "SlotFull"

\* C4: no stored booking has a blank (empty or whitespace-only) placa_tracto,
\* chofer_nombre or registrado_por, and no request with such a text gets past
\* the validation to the re-check or the append.
C4_CamposObligatorios ==
    /\ \A k \in DOMAIN hoja :
          /\ strip(hoja[k].placa_tracto) # <<>>
          /\ strip(hoja[k].chofer_nombre) # <<>>
          /\ strip(hoja[k].registrado_por) # <<>>
    /\ \A s \in Sesiones :
          pc[s] \in {"recheck", "append"}
              => /\ strip(widgets[s].placa_tracto) # <<>>
                 /\ strip(widgets[s].chofer) # <<>>
                 /\ strip(widgets[s].registrado_por) # <<>>

\* C5: the step that ends a request with the success message appends exactly
\* one row, which has every column and is the record the request assembled;
\* every other step of a request, whatever message ends it, leaves the sheet
\* as it was.
FilaCompleta(row) ==
    /\ DOMAIN row = COLUMNAS
    /\ row.id_ticket # <<>> /\ row.turno # <<>> /\ row.fecha_cita # <<>>
    /\ row.creado_en # <<>> /\ row.horario_turno # "" /\ row.estado = "EN COLA"

C5_UnaFilaOUnaNada ==
    [][\A s \in Sesiones :
          (pc'[s] # pc[s] \/ resultado'[s] # resultado[s])
              => IF pc'[s] = "inicio" /\ resultado'[s] = "ok"
                 THEN /\ Len(hoja') = Len(hoja) + 1
                      /\ SubSeq(hoja', 1, Len(hoja)) = hoja
                      /\ FilaCompleta(hoja'[Len(hoja')])
                      /\ <<hoja'[Len(hoja')]>> = data[s]
                 ELSE hoja' = hoja]_vars

C5_Testigo ==
    \E s \in Sesiones, r \in Sesiones :
        /\ resultado[s] = "ok" /\ last_ticket_data[s] = <<hoja[Len(hoja)]>>
        /\ resultado[r] \in {"ValidationError", "SlotFull", "StoreError"}

\* C6: the decision of a request is the one the sheet read by the re-check
\* gives (slot full exactly when that read shows no remaining capacity), also
\* when the figure of the preview says otherwise; after the re-check the
\* request makes no store call other than the append.
C6_DecisionSobreLecturaFresca ==
    [][\A s \in Sesiones :
          /\ PasoRecheck(s)
                => /\ (resultado'[s] = "SlotFull" /\ pc'[s] = "inicio") <=> (LibresDe(s, hoja) <= 0)
                   /\ (pc'[s] = "append" /\ libres_now'[s] = LibresDe(s, hoja))
                         <=> (LibresDe(s, hoja) > 0)
          /\ (pc[s] = "append" /\ pc'[s] # "append")
                => /\ pc'[s] = "inicio"
                   /\ resultado'[s] \in {"ok", "StoreError"}]_vars

C6_Testigo ==
    \E s \in Sesiones : pc[s] = "append" /\ libres_live[s] <= 0 /\ libres_now[s] > 0

\* C7: when a booking of a full slot is set to CANCELADO the remaining
\* capacity of the slot becomes 1, and a request for a slot with remaining
\* capacity 1 passes the re-check and its append adds a booking EN COLA of
\* that slot.
C7_CancelarLibera ==
    [][/\ \A k \in DOMAIN hoja :
            LET f == norm_date_text(hoja[k].fecha_cita)
                t == norm_str(hoja[k].turno)
                cap == TURNOS_BASE[1].capacidad
            IN  (/\ Len(hoja') = Len(hoja)
                 /\ hoja[k].estado # "CANCELADO"
                 /\ hoja' = [hoja EXCEPT ![k].estado = "CANCELADO"]
                 /\ Ocupados(hoja, f, t) = cap)
                    => cupos_disponibles(read_all(hoja'), f, t, cap) = 1
       /\ \A s \in Sesiones :
            /\ (PasoRecheck(s) /\ LibresDe(s, hoja) = 1) => pc'[s] = "append"
            /\ (pc[s] = "append" /\ pc'[s] = "inicio" /\ LibresDe(s, hoja) = 1)
                  => /\ resultado'[s] = "ok"
                     /\ Len(hoja') = Len(hoja) + 1
                     /\ hoja'[Len(hoja')].estado = "EN COLA"
                     /\ hoja'[Len(hoja')].turno = widgets[s].turno_sel
                     /\ hoja'[Len(hoja')].fecha_cita = fmt_fecha(widgets[s].fecha_sel)
                     /\ LibresDe(s, hoja') = 0]_vars

\* The slot was full, one booking was cancelled and the request that followed
\* succeeded: the slot is full again with one cancelled booking beside it.
C7_Testigo ==
    /\ resultado["s1"] = "ok"
    /\ Len(hoja) = TURNOS_BASE[1].capacidad + 1
    /\ Ocupados(hoja, fmt_fecha(4), TURNOS_BASE[1].turno) = TURNOS_BASE[1].capacidad
    /\ hoja[Len(hoja)].estado = "EN COLA"

\* C8: no two rows of the sheet carry the same id_ticket, and the id_ticket
\* of a row never changes.
C8_TicketsUnicos ==
    /\ [](\A i \in DOMAIN hoja : \A j \in DOMAIN hoja :
             i # j => hoja[i].id_ticket # hoja[j].id_ticket)
    /\ [][\A i \in DOMAIN hoja :
             i \in DOMAIN hoja' => hoja'[i].id_ticket = hoja[i].id_ticket]_vars

\* C9: while a save holds a change whose ticket was not found on the sheet,
\* that save has written nothing.
C9_NoEncontradoSinEscritura ==
    \A a \in Admins :
        (adm_pc[a] = "escribir" /\ \E k \in DOMAIN cambios[a] : cambios[a][k].row = <<>>)
            => Len(cambios[a]) = Len(CambiosDe(edited[a], df_admin[a]))

\* C10: every write of a save changes nothing but the estado of a row whose
\* id_ticket is the ticket of the change being written.
C10_EscrituraEnSuFila ==
    [][\A a \in Admins :
          (adm_pc[a] = "escribir" /\ cambios'[a] # cambios[a] /\ adm_resultado'[a] # "Error")
              => LET r == Head(cambios[a])
                 IN  \E k \in DOMAIN hoja :
                        /\ hoja[k].id_ticket = r.id_ticket
                        /\ hoja' = [hoja EXCEPT ![k].estado = r.estado_new]]_vars

\* A save is about to write and rows were appended after the read that gave
\* its row numbers.
C10_Testigo ==
    \E a \in Admins :
        /\ adm_pc[a] = "escribir"
        /\ Len(hoja) > Len(df_admin[a])
        /\ hoja[Head(cambios[a]).row[1] - 1].estado # Head(cambios[a]).estado_new

\* C11: no step changes a field other than estado in a row already on the
\* sheet, and a write of a save changes the estado of one row, a row of the
\* ticket being written, and leaves every other row as it was.
C11_SoloEstado ==
    [][/\ \A k \in DOMAIN hoja :
            /\ k \in DOMAIN hoja'
            /\ \A h \in COLUMNAS \ {"estado"} : hoja'[k][h] = hoja[k][h]
       /\ \A a \in Admins :
            (adm_pc[a] = "escribir" /\ cambios'[a] # cambios[a] /\ hoja' # hoja)
                => /\ Len(hoja') = Len(hoja)
                   /\ \E k \in DOMAIN hoja :
                        /\ hoja[k].id_ticket = Head(cambios[a]).id_ticket
                        /\ hoja'[k].estado = Head(cambios[a]).estado_new
                        /\ \A j \in DOMAIN hoja \ {k} : hoja'[j] = hoja[j]]_vars

\* The estado of the row whose date is stored with an apostrophe was changed
\* by a save; the rest of the row is as it was stored.
C11_Testigo ==
    /\ Len(hoja) >= Len(HojaInicial)
    /\ hoja[2].estado # HojaInicial[2].estado
    /\ \A h \in COLUMNAS \ {"estado"} : hoja[2][h] = HojaInicial[2][h]
    /\ hoja[2].fecha_cita # read_all(hoja)[2].fecha_cita

\* C12: the sheet only grows at its end: no step makes it shorter, and the
\* ticket stored at a position stays at that position in the next state; a
\* step that adds a row adds one row after the last one.
C12_SoloAgrega ==
    [][/\ Len(hoja') >= Len(hoja)
       /\ \A i \in DOMAIN hoja : hoja'[i].id_ticket = hoja[i].id_ticket
       /\ Len(hoja') > Len(hoja)
            => /\ Len(hoja') = Len(hoja) + 1
               /\ SubSeq(hoja', 1, Len(hoja)) = hoja]_vars

\* A row was appended and a save changed the estado of an older row; the
\* tickets of the initial rows are where they were.
C12_Testigo ==
    /\ Len(hoja) > Len(HojaInicial)
    /\ \E k \in DOMAIN HojaInicial : hoja[k].estado # HojaInicial[k].estado
    /\ \A k \in DOMAIN HojaInicial : hoja[k].id_ticket = HojaInicial[k].id_ticket

\* C13: whatever the estado of a row and whatever estado of ESTADOS the admin
\* picks for it, the save collects that change with the row number of the row
\* and the write stores the picked estado; and every write of a save leaves
\* the estado it was given in the row it addressed.
C13_TodaTransicion ==
    /\ [](\A k \in DOMAIN hoja : \A e \in EstadosTodos :
             LET tabla == merge_row(read_all(hoja), read_all(hoja))
                 c == CambiosDe(data_editor(tabla, k :> e), tabla)
             IN  e # hoja[k].estado
                    => /\ Len(c) = 1
                       /\ c[1].estado_new = e
                       /\ c[1].estado_old = hoja[k].estado
                       /\ c[1].row = <<k + 1>>
                       /\ update_estado_por_row(hoja, c[1].row[1], e)[k].estado = e)
    /\ [][\A a \in Admins :
             (adm_pc[a] = "escribir" /\ cambios'[a] # cambios[a]
                                     /\ adm_resultado'[a] # "Error")
                 => LET r == Head(cambios[a])
                    IN  /\ r.estado_old \in EstadosTodos
                        /\ r.estado_new \in EstadosTodos
                        /\ hoja'[r.row[1] - 1].estado = r.estado_new]_vars

\* A save ended well, the four rows hold the four estados, and the booking
\* that was cancelled at the start is in process.
C13_Testigo ==
    /\ \E a \in Admins : adm_resultado[a] = "Estados actualizados"
    /\ {hoja[k].estado : k \in DOMAIN hoja} = EstadosTodos
    /\ HojaInicial[3].estado = "CANCELADO"
    /\ hoja[3].estado = "EN PROCESO"

\* C14: a save writes the sheet once: the step of a save that changes the
\* sheet applies every change of that save and ends the save, so no state
\* shows the sheet with a part of the save written.
C14_UnaSolaEscritura ==
    [][\A a \in Admins :
          (adm_pc[a] = "escribir" /\ hoja' # hoja)
              => /\ adm_pc'[a] = "inicio"
                 /\ adm_resultado'[a] = "Estados actualizados"
                 /\ \A k \in DOMAIN cambios[a] :
                       hoja'[cambios[a][k].row[1] - 1].estado = cambios[a][k].estado_new]_vars

\* C15: when the store answers no more than two reads with a transient error
\* and every other call succeeds, no run of the form and no save of the admin
\* panel ends with an error.
C15_TransitorioNoAflora ==
    /\ \A s \in Sesiones : resultado[s] # "StoreError"
    /\ \A a \in Admins : adm_resultado[a] # "Error"

\* C16: a run whose append raises ends with the error, leaves the sheet as it
\* was and leaves the ticket remembered by the session as it was; so every
\* ticket a session remembers is the ticket of a row of the sheet.
C16_AppendFallido ==
    /\ [][\A s \in Sesiones :
             (pc[s] = "append" /\ pc'[s] # "append" /\ resultado'[s] # "ok")
                 => /\ resultado'[s] = "StoreError"
                    /\ pc'[s] = "inicio"
                    /\ hoja' = hoja
                    /\ last_ticket_data'[s] = last_ticket_data[s]]_vars
    /\ [](\A s \in Sesiones :
             last_ticket_data[s] # <<>>
                 => \E k \in DOMAIN hoja :
                       hoja[k].id_ticket = last_ticket_data[s][1].id_ticket)

\* A session that holds the ticket of an earlier booking has had the append of
\* its next booking fail: the sheet has the earlier row only.
C16_Testigo ==
    \E s \in Choferes :
        /\ resultado[s] = "StoreError"
        /\ last_ticket_data[s] # <<>>
        /\ Len(hoja) = Len(HojaInicial) + 1
        /\ hoja[Len(hoja)].id_ticket = last_ticket_data[s][1].id_ticket

\* C17 as stated: the figure of the chosen slot is the capacity minus the
\* bookings of that date and slot that are not cancelled, and is not negative.
C17_CapacidadMenosUsados ==
    \A s \in Sesiones :
        pc[s] = "live"
            => /\ libres_live[s] = widgets[s].cap_sel
                     - Ocupados(hoja, fmt_fecha(widgets[s].fecha_sel), widgets[s].turno_sel)
               /\ libres_live[s] >= 0

\* C17: the figure of the chosen slot is the capacity minus the bookings of
\* that date and slot that are not cancelled while these are no more than the
\* capacity, and 0 when they are more; it is never negative.
C17_CupoAcotado ==
    \A s \in Sesiones :
        pc[s] = "live"
            => LET u == Ocupados(hoja, fmt_fecha(widgets[s].fecha_sel), widgets[s].turno_sel)
                   cap == widgets[s].cap_sel
               IN  /\ u <= cap => libres_live[s] = cap - u
                   /\ u > cap => libres_live[s] = 0
                   /\ libres_live[s] >= 0

\* The figure was computed for a slot that holds more bookings than its
\* capacity, one of them stored with an apostrophe before the date.
C17_Testigo ==
    /\ pc["s1"] = "live"
    /\ Ocupados(hoja, fmt_fecha(widgets["s1"].fecha_sel), widgets["s1"].turno_sel)
          > widgets["s1"].cap_sel
    /\ \E k \in DOMAIN hoja : hoja[k].fecha_cita # read_all(hoja)[k].fecha_cita
    /\ libres_live["s1"] = 0

\* The slots the catalog has for a day of the week: the first two on
\* Saturday, the four of them from Monday to Friday.
CatalogoDe(d) == IF d = 5 THEN {1, 2} ELSE {1, 2, 3, 4}

PosicionDe(turno) == CHOOSE j \in DOMAIN TURNOS_BASE : TURNOS_BASE[j].turno = turno

\* C18: the slot list of the chosen date has a slot of the catalog of that
\* day exactly when bookings not cancelled leave places in it, gives for each
\* its places left, schedule and capacity, and follows the order of the
\* catalog; no slot of the list has 0 places left.
C18_SoloConCupo ==
    \A s \in Sesiones :
        pc[s] = "live"
            => LET d == widgets[s].fecha_sel
                   r == disponibles[s]
                   quedan(j) == TURNOS_BASE[j].capacidad
                                  - Ocupados(hoja, fmt_fecha(d), TURNOS_BASE[j].turno)
               IN  /\ \A i \in DOMAIN r :
                         \E j \in CatalogoDe(d) :
                            /\ r[i].turno = TURNOS_BASE[j].turno
                            /\ r[i].horario = TURNOS_BASE[j].horario
                            /\ r[i].capacidad = TURNOS_BASE[j].capacidad
                            /\ r[i].libres = quedan(j)
                            /\ r[i].libres > 0
                   /\ \A j \in CatalogoDe(d) :
                         quedan(j) > 0 => \E i \in DOMAIN r : r[i].turno = TURNOS_BASE[j].turno
                   /\ \A i1 \in DOMAIN r : \A i2 \in DOMAIN r :
                         i1 < i2 => PosicionDe(r[i1].turno) < PosicionDe(r[i2].turno)

\* The list was computed for a Friday whose first slot is exactly full: it
\* has the other three slots, the second of them with a place taken.
C18_Testigo ==
    /\ pc["s1"] = "live"
    /\ widgets["s1"].fecha_sel = 4
    /\ Ocupados(hoja, fmt_fecha(4), TURNOS_BASE[1].turno) = TURNOS_BASE[1].capacidad
    /\ Len(disponibles["s1"]) = 3
    /\ disponibles["s1"][1].turno = TURNOS_BASE[2].turno
    /\ disponibles["s1"][1].libres = TURNOS_BASE[2].capacidad - 1

\* C19: a step that sets the estado of a booking that is not cancelled to
\* CANCELADO raises the places left of the date and slot of that booking by
\* one and leaves the places left of every other date and slot as they were.
C19_CancelarSumaUno ==
    [][\A k \in DOMAIN hoja :
          (/\ hoja[k].estado # "CANCELADO"
           /\ hoja' = [hoja EXCEPT ![k].estado = "CANCELADO"])
              => LET f == norm_date_text(hoja[k].fecha_cita)
                     t == norm_str(hoja[k].turno)
                     libres(ws, d, j) ==
                         cupos_disponibles(read_all(ws), fmt_fecha(d), TURNOS_BASE[j].turno,
                                           TURNOS_BASE[j].capacidad)
                 IN  \A d \in semana_lun_sab : \A j \in DOMAIN TURNOS_BASE :
                        libres(hoja', d, j) =
                            IF fmt_fecha(d) = f /\ TURNOS_BASE[j].turno = t
                            THEN libres(hoja, d, j) + 1
                            ELSE libres(hoja, d, j)]_vars

\* C20: every row of the sheet is of a day from Monday to Saturday, never a
\* Sunday, and of a slot the catalog has for that day with the schedule of
\* that slot: one of the first two on a Saturday, one of the four otherwise.
C20_TurnoDelDia ==
    \A k \in DOMAIN hoja :
        \E d \in 0..6 :
            /\ norm_date_text(hoja[k].fecha_cita) = fmt_fecha(d)
            /\ weekday(d) # 6
            /\ \E j \in CatalogoDe(weekday(d)) :
                  /\ hoja[k].turno = TURNOS_BASE[j].turno
                  /\ hoja[k].horario_turno = TURNOS_BASE[j].horario

\* A run of the form appended a booking for the second slot of the Saturday.
C20_Testigo ==
    /\ Len(hoja) > Len(HojaInicial)
    /\ \E s \in Sesiones : resultado[s] = "ok"
    /\ hoja[Len(hoja)].fecha_cita = fmt_fecha(5)
    /\ hoja[Len(hoja)].turno = TURNOS_BASE[2].turno

\* C21: with requests served one at a time and an admin who only cancels, in
\* every reachable state the bookings not cancelled of each date and slot and
\* the places the program computes as left add up to the capacity of the
\* slot, so the bookings are never more than the capacity.
C21_CupoEnSerie ==
    \A d \in semana_lun_sab : \A i \in DOMAIN TURNOS_BASE :
        LET usados == Ocupados(hoja, fmt_fecha(d), TURNOS_BASE[i].turno)
            libres == cupos_disponibles(read_all(hoja), fmt_fecha(d), TURNOS_BASE[i].turno,
                                        TURNOS_BASE[i].capacidad)
        IN  /\ usados <= TURNOS_BASE[i].capacidad
            /\ usados + libres = TURNOS_BASE[i].capacidad

\* The slot was filled, the admin cancelled a booking that was in the queue at
\* the start, and a later request filled the slot again.
C21_Testigo ==
    /\ Len(hoja) = Len(HojaInicial) + 2
    /\ Ocupados(hoja, fmt_fecha(4), TURNOS_BASE[1].turno) = TURNOS_BASE[1].capacidad
    /\ \E k \in DOMAIN HojaInicial :
          HojaInicial[k].estado = "EN COLA" /\ hoja[k].estado = "CANCELADO"
    /\ \E s \in Choferes : resultado[s] = "ok"

\* C22: a save goes on to write only when the admin changed an estado in the
\* editor, and every write of a save is for a row of the table whose estado
\* the admin changed, stores the estado the admin gave it and leaves every
\* other row of the sheet as it is.
C22_SoloLoEditado ==
    [][\A a \in Admins :
          /\ (adm_pc[a] = "resolver" /\ adm_pc'[a] = "escribir")
                => \E i \in DOMAIN edited'[a] :
                      edited'[a][i].estado # df_admin'[a][i].estado
          /\ (adm_pc[a] = "escribir" /\ cambios'[a] # cambios[a]
                                     /\ adm_resultado'[a] # "Error")
                => LET r == Head(cambios[a])
                   IN  /\ \E i \in DOMAIN edited[a] :
                             /\ edited[a][i].estado # df_admin[a][i].estado
                             /\ edited[a][i]["__row"] = r.row
                             /\ edited[a][i].estado = r.estado_new
                       /\ \A k \in DOMAIN hoja :
                             k # r.row[1] - 1 => hoja'[k] = hoja[k]]_vars

====
